---- MODULE Spec2Model ----
(***************************************************************************)
(* Model of dump_ebcdic_tables.py: the PASE -> ILE call bridge             *)
(* (load_symbol and the lazily cached procedure pointers), the iconv       *)
(* session (iconv_open / iconv / iconv_close), the encoding scheme probe   *)
(* (get_encoding_scheme), the table builder (dump_conv_table), the report  *)
(* writers (write_conv_txt, write_conv_html) and the module level driver   *)
(* loop.                                                                   *)
(*                                                                         *)
(* The ILE side is the environment: every libc primitive (_ILELOADX,       *)
(* _ILESYMX, _RSLOBJ2, _ILECALLX, _PGMCALL) and every ILE procedure        *)
(* answers with a nondeterministically chosen outcome.                     *)
(*                                                                         *)
(* Scaling.  A source byte has CpBase values instead of 256, so a          *)
(* single-byte table has CpBase entries and a double-byte table            *)
(* CpBase * CpBase entries; the driver's range(1, 65535) is sampled by     *)
(* the identifiers 1 .. MaxLowCcsid together with the two identifiers of   *)
(* the skip list.  Output bytes keep their real values 0 .. 255.           *)
(***************************************************************************)
EXTENDS Integers, Sequences, FiniteSets, TLC

\* ------------------------------------------------------------- bounds
\* number of values of one source byte (256 in the program)
CpBase == 2
\* the low candidate identifiers 1 .. MaxLowCcsid stand for range(1, 65535)
MaxLowCcsid == 2
\* calls the function-level specification SpecCalls issues at most
MaxCalls == 4

\* ------------------------------------------------- program constants
ES_SBCS == 4352
ES_DBCS == 4608
ES_UNSUPPORTED == -1
OPEN_FAILED == -1
CCSID_UTF16 == 1200
OUT_BUF_LEN == 8
ERRNO_LEN == 4
SKIP_CCSIDS == {16684, 57777}

\* the identifiers the driver loop enumerates, in increasing order
Candidates == (1 .. MaxLowCcsid) \cup SKIP_CCSIDS

LastCcsid == CHOOSE c \in Candidates : \A d \in Candidates : d <= c

SuccCcsid(c) ==
    CHOOSE n \in Candidates : n > c /\ \A d \in Candidates : d > c => n <= d

\* the five lazily resolved ILE objects: four procedures and one program
Symbols == {"__errno", "QtqIconvOpen", "iconv_close", "iconv", "QTQGESP"}

NoPtr == 0

\* ------------------------------------------------ pure helper functions

\* int.to_bytes(size, byteorder='big') over bytes of CpBase values
RECURSIVE to_bytes_le(_, _)
to_bytes_le(cp, size) ==
    IF size = 0 THEN <<>>
    ELSE <<cp % CpBase>> \o to_bytes_le(cp \div CpBase, size - 1)

RECURSIVE to_bytes(_, _)
to_bytes(cp, size) ==
    IF size = 0 THEN <<>>
    ELSE Append(to_bytes(cp \div CpBase, size - 1), cp % CpBase)

\* int(buf.raw.hex(), 16): the bytes read as one big-endian unsigned number
RECURSIVE BigEndian(_)
BigEndian(bytes) ==
    IF bytes = <<>> THEN 0
    ELSE 256 * BigEndian(SubSeq(bytes, 1, Len(bytes) - 1)) + bytes[Len(bytes)]

\* the table dump_conv_table allocates: [None] * max_cp
NONE == <<-1>>

MaxCp(scheme) == IF scheme = ES_SBCS THEN CpBase ELSE CpBase * CpBase

CpSize(scheme) == IF scheme = ES_SBCS THEN 1 ELSE 2

\* bytes.decode('utf-16be'), strict: [ok, str], str a sequence of code points
IsHighSurrogate(unit) == unit >= 55296 /\ unit <= 56319

IsLowSurrogate(unit) == unit >= 56320 /\ unit <= 57343

RECURSIVE Utf16beDecode(_)
Utf16beDecode(b) ==
    IF b = <<>> THEN [ok |-> TRUE, str |-> <<>>]
    ELSE IF Len(b) = 1 THEN [ok |-> FALSE, str |-> <<>>]
    ELSE LET unit == 256 * b[1] + b[2] IN
        IF IsLowSurrogate(unit) THEN [ok |-> FALSE, str |-> <<>>]
        ELSE IF IsHighSurrogate(unit) THEN
            IF Len(b) < 4 THEN [ok |-> FALSE, str |-> <<>>]
            ELSE LET low == 256 * b[3] + b[4]
                     rest == Utf16beDecode(SubSeq(b, 5, Len(b)))
                 IN IF ~IsLowSurrogate(low) \/ ~rest.ok
                    THEN [ok |-> FALSE, str |-> <<>>]
                    ELSE [ok |-> TRUE,
                          str |-> <<65536 + (unit - 55296) * 1024 + (low - 56320)>>
                                  \o rest.str]
        ELSE LET rest == Utf16beDecode(SubSeq(b, 3, Len(b)))
             IN IF ~rest.ok THEN [ok |-> FALSE, str |-> <<>>]
                ELSE [ok |-> TRUE, str |-> <<unit>> \o rest.str]

\* unicodedata.category for the characters the model converts to
Category(c) ==
    IF c <= 31 \/ (c >= 127 /\ c <= 159) THEN "Cc"
    ELSE IF c \in {32, 160} THEN "Zs"
    ELSE IF c >= 48 /\ c <= 57 THEN "Nd"
    ELSE IF c >= 65 /\ c <= 90 THEN "Lu"
    ELSE IF c >= 97 /\ c <= 122 THEN "Ll"
    ELSE IF c >= 57344 /\ c <= 63743 THEN "Co"
    ELSE IF c \in {65534, 65535} THEN "Cn"
    ELSE "So"

\* unicodedata.name raises ValueError ("no such name") for these
HasNoName(c) == Category(c) \in {"Cc", "Co", "Cn"}

\* unicodedata.name of a named character (the name itself is not modelled)
NameOf(c) == IF c = 32 THEN "SPACE" ELSE "CHARACTER NAME"

\* the local variable u of write_conv_txt before its first assignment
UNBOUND == <<-1>>

\* One pass of the body of write_conv_txt's loop over entry out with the
\* previous value of u: [u, name, exc].  UnicodeDecodeError is a subclass
\* of ValueError and the ValueError handler comes first, so it is the one
\* that runs for undecodable bytes; the UnicodeDecodeError handler below it
\* is never selected.
SelectedHandler(e) == IF e = "UnicodeDecodeError" THEN "ValueError" ELSE e

TxtEntry(out, u) ==
    IF out = NONE THEN [u |-> u, name |-> "", exc |-> "AttributeError"]
    ELSE LET dec == Utf16beDecode(out)
             raised == IF ~dec.ok THEN "UnicodeDecodeError"
                       ELSE IF Len(dec.str) # 1 THEN "TypeError"
                       ELSE IF HasNoName(dec.str[1]) THEN "ValueError"
                       ELSE ""
             u1 == IF dec.ok THEN dec.str ELSE u
         IN IF raised = "" THEN [u |-> u1, name |-> NameOf(u1[1]), exc |-> ""]
            ELSE IF raised = "TypeError" THEN [u |-> u1, name |-> "", exc |-> "TypeError"]
            ELSE IF SelectedHandler(raised) = "ValueError" THEN
                \* category = unicodedata.category(u)
                IF u1 = UNBOUND THEN [u |-> u1, name |-> "", exc |-> "UnboundLocalError"]
                ELSE IF Len(u1) # 1 THEN [u |-> u1, name |-> "", exc |-> "TypeError"]
                ELSE IF Category(u1[1]) = "Cc"
                     THEN [u |-> u1, name |-> "<control>", exc |-> ""]
                     ELSE [u |-> u1, name |-> "<unknown>", exc |-> ""]
            ELSE [u |-> u1, name |-> "<error>", exc |-> ""]

\* the loop of write_conv_txt from entry i on: [lines, exc]
RECURSIVE TxtLoop(_, _, _, _)
TxtLoop(tbl, i, u, lines) ==
    IF i > Len(tbl) THEN [lines |-> lines, exc |-> ""]
    ELSE LET r == TxtEntry(tbl[i], u) IN
        IF r.exc # "" THEN [lines |-> lines, exc |-> r.exc]
        ELSE TxtLoop(tbl, i + 1, r.u,
                     Append(lines, [cp |-> i - 1, hex |-> tbl[i], name |-> r.name]))

\* write_conv_txt(table, file); kind = "none" is the table None
write_conv_txt(kind, tbl) ==
    IF kind # "list" THEN [lines |-> <<>>, exc |-> "TypeError"]
    ELSE TxtLoop(tbl, 1, UNBOUND, <<>>)

\* CATEGORY_CLASS.get(category, "normal")
CategoryClass(cat) ==
    IF cat = "Cc" THEN "control-code"
    ELSE IF cat = "Zs" THEN "space-separator"
    ELSE IF cat \in {"Sc", "Sk", "Sm", "So"} THEN "symbol"
    ELSE IF cat \in {"Pc", "Pd", "Pe", "Pf", "Pi", "Po", "Ps"} THEN "punctuation"
    ELSE IF cat \in {"Nd", "Nl", "No"} THEN "number"
    ELSE "normal"

\* u in INVARIANTS: ASCII letters, digits and the fixed punctuation list
IsInvariantChar(c) ==
    \/ c >= 65 /\ c <= 90
    \/ c >= 97 /\ c <= 122
    \/ c >= 48 /\ c <= 57
    \/ c \in {43, 60, 61, 62, 37, 38, 42, 34, 39, 40, 41, 44, 95, 45, 46, 47, 58, 59, 63}

\* one cell of the grid of write_conv_html: [cell, exc]
HtmlCell(cp, out) ==
    IF out = NONE THEN [cell |-> <<>>, exc |-> "AttributeError"]
    ELSE LET dec == Utf16beDecode(out) IN
        IF ~dec.ok THEN [cell |-> <<>>, exc |-> "UnicodeDecodeError"]
        ELSE IF Len(dec.str) # 1 THEN [cell |-> <<>>, exc |-> "TypeError"]
        ELSE LET c == dec.str[1] IN
            [cell |-> <<[cp |-> cp, code |-> c,
                         cls |-> CategoryClass(Category(c)),
                         invariant |-> IsInvariantChar(c)]>>,
             exc |-> ""]

RECURSIVE HtmlLoop(_, _, _)
HtmlLoop(tbl, i, cells) ==
    IF i > Len(tbl) THEN [wrote |-> TRUE, cells |-> cells, exc |-> ""]
    ELSE LET r == HtmlCell(i - 1, tbl[i]) IN
        IF r.exc # "" THEN [wrote |-> TRUE, cells |-> cells, exc |-> r.exc]
        ELSE HtmlLoop(tbl, i + 1, cells \o r.cell)

\* write_conv_html(ccsid, table, file): nothing unless the table is single-byte
write_conv_html(kind, tbl) ==
    IF kind # "list" THEN [wrote |-> FALSE, cells |-> <<>>, exc |-> "TypeError"]
    ELSE IF Len(tbl) # MaxCp(ES_SBCS) THEN [wrote |-> FALSE, cells |-> <<>>, exc |-> ""]
    ELSE HtmlLoop(tbl, 1, <<>>)

\* ------------------------------------------------------------ state
VARIABLES
    ptr,        \* the function attribute <f>.ptr of each symbol, NoPtr while unset
    loads,      \* per symbol: calls of _ILELOADX / _RSLOBJ2 made for it
    resolved,   \* per symbol: resolutions that succeeded
    nextObj,    \* identity of the next ILEPointer object a resolution creates
    lastCall,   \* [sym, how]: the symbol the last call used and how it got it
    exc,        \* the exception the last call or step raised, "" if none
    errno_val,  \* the value get_ile_errno returned last
    es,         \* the value get_encoding_scheme returned last
    fb,         \* the feedback array QTQGESP filled in last
    esOut,      \* the encoding scheme QTQGESP filled in last
    probed,     \* the identifier passed to QTQGESP last
    cd,         \* the descriptor iconv_open returned last: [rtn, id]
    openCds,    \* ILE side: descriptors opened and not closed
    nextCd,     \* ILE side: identity of the next descriptor
    out,        \* the output bytes iconv returned last
    convLog,    \* the iconv calls of the current table: [cd, open, data, w]
    pc,         \* position of the driver
    failedAt,   \* the position at which an exception left the driver
    ccsid,      \* loop variable of the driver
    max_cp,     \* dump_conv_table: number of code points
    cp_size,    \* dump_conv_table: bytes per code point
    cp,         \* dump_conv_table: loop variable
    table,      \* the table being built, then the driver's table
    tableKind,  \* "unset", "building", "none" (None returned), "list"
    dumped,     \* identifiers dump_conv_table was invoked for
    files,      \* files created: <<identifier, extension>>
    txt_out,    \* lines write_conv_txt printed for the current identifier
    html_out,   \* what write_conv_html printed for the current identifier
    ncalls      \* calls issued by the function-level specification

cacheVars == <<ptr, loads, resolved, nextObj, lastCall>>

probeVars == <<es, fb, esOut, probed>>

localVars == <<max_cp, cp_size, cp, table, tableKind, txt_out, html_out>>

driverVars == <<pc, failedAt, ccsid, dumped, files>>

vars == <<ptr, loads, resolved, nextObj, lastCall, exc, errno_val, es, fb, esOut,
          probed, cd, openCds, nextCd, out, convLog, pc, failedAt, ccsid, max_cp,
          cp_size, cp, table, tableKind, dumped, files, txt_out, html_out, ncalls>>

NoCd == [rtn |-> 0, id |-> 0]

NoHtml == [wrote |-> FALSE, cells |-> <<>>]

Init ==
    /\ ptr = [s \in Symbols |-> NoPtr]
    /\ loads = [s \in Symbols |-> 0]
    /\ resolved = [s \in Symbols |-> 0]
    /\ nextObj = 1
    /\ lastCall = [sym |-> "", how |-> ""]
    /\ exc = ""
    /\ errno_val = 0
    /\ es = 0
    /\ fb = <<0, 0, 0>>
    /\ esOut = 0
    /\ probed = 0
    /\ cd = NoCd
    /\ openCds = {}
    /\ nextCd = 1
    /\ out = <<>>
    /\ convLog = <<>>
    /\ pc = "loop"
    /\ failedAt = ""
    /\ ccsid = 1
    /\ max_cp = 0
    /\ cp_size = 0
    /\ cp = 0
    /\ table = <<>>
    /\ tableKind = "unset"
    /\ dumped = {}
    /\ files = {}
    /\ txt_out = <<>>
    /\ html_out = NoHtml
    /\ ncalls = 0

\* ------------------------------------------- the ILE side's answers
\* _ILECALLX / _PGMCALL: zero ("ok") or nonzero ("fail")
CallOutcomes == {"ok", "fail"}

\* the feedback array QTQGESP may fill in
Feedbacks == {<<0, 0, 0>>, <<1, 0, 0>>, <<0, 0, 2>>}

\* the encoding scheme QTQGESP may report: SBCS, DBCS, a mixed scheme
SchemeCodes == {ES_SBCS, ES_DBCS, 4865}

\* rtn of the iconv_t that QtqIconvOpen returns
OpenResults == {0, OPEN_FAILED}

\* what the ILE iconv may do with one code point: its return value and the
\* bytes it wrote to the output buffer (a mapped character, nothing with a
\* failing status, an unpaired surrogate); rc -1 is (size_t) -1
ConvOutcomes ==
    { [rc |-> 0, w |-> <<0, 65>>],
      [rc |-> -1, w |-> <<>>],
      [rc |-> 0, w |-> <<216, 0>>] }

\* the 4-byte errno cell of the ILE side
ErrnoCells == {<<0, 0, 0, 0>>, <<0, 0, 13, 53>>}

\* the output buffer after the call and the remaining length in out_len
RECURSIVE Zeros(_)
Zeros(n) == IF n <= 0 THEN <<>> ELSE Append(Zeros(n - 1), 0)

OutBuf(o) == o.w \o Zeros(OUT_BUF_LEN - Len(o.w))

OutLeft(o) == OUT_BUF_LEN - Len(o.w)

\* ------------------------------------------------ symbol resolution
\* try: ptr = f.ptr / except AttributeError: the attribute is not set yet
NeedsLoadAlways(sym) == TRUE

NeedsLoad(sym) == ptr[sym] = NoPtr

\* load_symbol: _ILELOADX fails ("noobj"), _ILESYMX does not find a
\* procedure ("nosym"), or the pointer is resolved ("ok"); for the program
\* QTQGESP _RSLOBJ2 fails ("noobj") or resolves ("ok")
LoadOutcomes(sym) ==
    IF ~NeedsLoad(sym) THEN {"cached"}
    ELSE IF sym = "QTQGESP" THEN {"noobj", "ok"}
    ELSE {"noobj", "nosym", "ok"}

LoadFailed(how) == how \in {"noobj", "nosym"}

\* ptr = f.ptr, or ptr = f.ptr = load_symbol(...): the attribute is
\* assigned only when load_symbol returns
Resolve(sym, how) ==
    /\ lastCall' = [sym |-> sym, how |-> how]
    /\ loads' = IF how = "cached" THEN loads ELSE [loads EXCEPT ![sym] = @ + 1]
    /\ resolved' = IF how = "ok" THEN [resolved EXCEPT ![sym] = @ + 1] ELSE resolved
    /\ ptr' = IF how = "ok" THEN [ptr EXCEPT ![sym] = nextObj] ELSE ptr
    /\ nextObj' = IF how = "ok" THEN nextObj + 1 ELSE nextObj

\* ------------------------------------------------------ the functions
\* Each is an action on the variables it touches; the caller frames the rest.

get_ile_errno(how, call, cell) ==
    /\ Resolve("__errno", how)
    /\ IF LoadFailed(how) THEN exc' = "OSError" /\ UNCHANGED errno_val
       ELSE IF call = "fail" THEN exc' = "RuntimeError" /\ UNCHANGED errno_val
       ELSE exc' = "" /\ errno_val' = BigEndian(SubSeq(cell, 1, ERRNO_LEN))

\* the tail of get_encoding_scheme: -1 if any(fb), else es.value
EncodingSchemeIgnoringFb(f, e) == e

EncodingSchemeResult(f, e) ==
    IF \E i \in 1 .. Len(f) : f[i] # 0 THEN ES_UNSUPPORTED ELSE e

get_encoding_scheme(id, how, call, f, e) ==
    /\ Resolve("QTQGESP", how)
    /\ IF LoadFailed(how) \/ call = "fail"
       THEN exc' = "OSError" /\ UNCHANGED probeVars
       ELSE /\ exc' = ""
            /\ probed' = id
            /\ fb' = f
            /\ esOut' = e
            /\ es' = EncodingSchemeResult(f, e)

iconv_open(out_ccsid, in_ccsid, how, call, r) ==
    /\ Resolve("QtqIconvOpen", how)
    /\ IF LoadFailed(how) THEN exc' = "OSError" /\ UNCHANGED <<cd, openCds, nextCd>>
       ELSE IF call = "fail" THEN exc' = "RuntimeError" /\ UNCHANGED <<cd, openCds, nextCd>>
       ELSE IF r = OPEN_FAILED
            THEN exc' = "" /\ cd' = [rtn |-> r, id |-> 0] /\ UNCHANGED <<openCds, nextCd>>
            ELSE /\ exc' = ""
                 /\ cd' = [rtn |-> r, id |-> nextCd]
                 /\ openCds' = openCds \cup {nextCd}
                 /\ nextCd' = nextCd + 1

iconv_close(d, how, call) ==
    /\ Resolve("iconv_close", how)
    /\ IF LoadFailed(how) THEN exc' = "OSError" /\ UNCHANGED openCds
       ELSE IF call = "fail" THEN exc' = "RuntimeError" /\ UNCHANGED openCds
       ELSE exc' = "" /\ openCds' = openCds \ {d.id}

\* out_size = len(out_buf) - out_len.value; out_buf.raw[:out_size]
IconvResult(buf, left) == SubSeq(buf, 1, Len(buf) - left)

iconv(d, data, how, call, o) ==
    /\ Resolve("iconv", how)
    /\ IF LoadFailed(how) THEN exc' = "OSError" /\ UNCHANGED <<out, convLog>>
       ELSE IF call = "fail" THEN exc' = "RuntimeError" /\ UNCHANGED <<out, convLog>>
       ELSE /\ exc' = ""
            /\ out' = IconvResult(OutBuf(o), OutLeft(o))
            /\ convLog' = Append(convLog,
                   [cd |-> d.id, open |-> d.rtn # OPEN_FAILED /\ d.id \in openCds,
                    data |-> data, w |-> o.w])

\* ------------------------------------------------------- the driver
\* es not in (0x1100, 0x1200)
Eligible(scheme) == scheme \in {ES_SBCS, ES_DBCS}

\* ccsid in (16684, 57777)
SkippedNever(id) == FALSE

Skipped(id) == id \in SKIP_CCSIDS

\* cd.rtn == -1
OpenFailedNever(d) == FALSE

OpenFailed(d) == d.rtn = OPEN_FAILED

\* es != 0x1200
WantsHtmlAlways(scheme) == TRUE

WantsHtml(scheme) == scheme # ES_DBCS

\* the next iteration of the for loop, or its end
Continue ==
    /\ pc' = IF ccsid = LastCcsid THEN "done" ELSE "loop"
    /\ ccsid' = IF ccsid = LastCcsid THEN ccsid ELSE SuccCcsid(ccsid)
    /\ failedAt' = failedAt

\* an exception nothing catches ends the program
Abort ==
    /\ pc' = "aborted"
    /\ failedAt' = pc
    /\ ccsid' = ccsid

\* lines 616-623: classify the identifier, skip it or go on to dump it.  The
\* locals of the finished iteration are dead here and are cleared.
Classify ==
    /\ pc = "loop"
    /\ \E how \in LoadOutcomes("QTQGESP"), call \in CallOutcomes,
          f \in Feedbacks, e \in SchemeCodes :
            get_encoding_scheme(ccsid, how, call, f, e)
    /\ max_cp' = 0 /\ cp_size' = 0 /\ cp' = 0
    /\ table' = <<>> /\ tableKind' = "unset"
    /\ txt_out' = <<>> /\ html_out' = NoHtml
    /\ cd' = NoCd /\ out' = <<>> /\ convLog' = <<>>
    /\ IF exc' # "" THEN Abort
       ELSE IF ~Eligible(es') \/ Skipped(ccsid) THEN Continue
       ELSE pc' = "dump" /\ ccsid' = ccsid /\ failedAt' = failedAt
    /\ UNCHANGED <<errno_val, openCds, nextCd, dumped, files, ncalls>>

\* lines 624, 403-416: dump_conv_table is entered and opens the converter
DumpOpen ==
    /\ pc = "dump"
    /\ \E how \in LoadOutcomes("QtqIconvOpen"), call \in CallOutcomes,
          r \in OpenResults :
            iconv_open(CCSID_UTF16, ccsid, how, call, r)
    /\ dumped' = dumped \cup {ccsid}
    /\ IF exc' # "" THEN Abort /\ UNCHANGED <<max_cp, cp_size, cp, table, tableKind>>
       ELSE IF OpenFailed(cd')
            THEN /\ tableKind' = "none"
                 /\ pc' = "txt" /\ ccsid' = ccsid /\ failedAt' = failedAt
                 /\ UNCHANGED <<max_cp, cp_size, cp, table>>
            ELSE /\ max_cp' = MaxCp(es)
                 /\ cp_size' = CpSize(es)
                 /\ table' = [i \in 1 .. MaxCp(es) |-> NONE]
                 /\ tableKind' = "building"
                 /\ cp' = 0
                 /\ pc' = "conv" /\ ccsid' = ccsid /\ failedAt' = failedAt
    /\ UNCHANGED <<errno_val, probeVars, out, convLog, files, txt_out, html_out, ncalls>>

\* lines 417-421: one pass of the loop over the code points
ConvStep ==
    /\ pc = "conv"
    /\ cp < max_cp
    /\ \E how \in LoadOutcomes("iconv"), call \in CallOutcomes, o \in ConvOutcomes :
            iconv(cd, to_bytes(cp, cp_size), how, call, o)
    /\ IF exc' # "" THEN Abort /\ UNCHANGED <<table, cp>>
       ELSE /\ table' = [table EXCEPT ![cp + 1] = out']
            /\ cp' = cp + 1
            /\ pc' = IF cp + 1 = max_cp THEN "close" ELSE "conv"
            /\ ccsid' = ccsid /\ failedAt' = failedAt
    /\ UNCHANGED <<errno_val, probeVars, cd, openCds, nextCd, max_cp, cp_size,
                   tableKind, dumped, files, txt_out, html_out, ncalls>>

\* lines 423-425: close the converter and return the table
Close ==
    /\ pc = "close"
    /\ \E how \in LoadOutcomes("iconv_close"), call \in CallOutcomes :
            iconv_close(cd, how, call)
    /\ IF exc' # "" THEN Abort /\ UNCHANGED tableKind
       ELSE tableKind' = "list" /\ pc' = "txt" /\ ccsid' = ccsid /\ failedAt' = failedAt
    /\ UNCHANGED <<errno_val, probeVars, cd, nextCd, out, convLog, max_cp, cp_size,
                   cp, table, dumped, files, txt_out, html_out, ncalls>>

\* lines 625-626: create IBM-<ccsid>.txt and write the table to it
WriteTxt ==
    /\ pc = "txt"
    /\ files' = files \cup {<<ccsid, "txt">>}
    /\ LET r == write_conv_txt(tableKind, table) IN
        /\ txt_out' = r.lines
        /\ exc' = r.exc
        /\ IF r.exc # "" THEN Abort
           ELSE IF WantsHtml(es)
                THEN pc' = "html" /\ ccsid' = ccsid /\ failedAt' = failedAt
                ELSE Continue
    /\ UNCHANGED <<cacheVars, errno_val, probeVars, cd, openCds, nextCd, out, convLog,
                   max_cp, cp_size, cp, table, tableKind, dumped, html_out, ncalls>>

\* lines 627-630: create IBM-<ccsid>.html and write the grid to it
WriteHtml ==
    /\ pc = "html"
    /\ files' = files \cup {<<ccsid, "html">>}
    /\ LET r == write_conv_html(tableKind, table) IN
        /\ html_out' = [wrote |-> r.wrote, cells |-> r.cells]
        /\ exc' = r.exc
        /\ IF r.exc # "" THEN Abort ELSE Continue
    /\ UNCHANGED <<cacheVars, errno_val, probeVars, cd, openCds, nextCd, out, convLog,
                   max_cp, cp_size, cp, table, tableKind, dumped, txt_out, ncalls>>

Next == Classify \/ DumpOpen \/ ConvStep \/ Close \/ WriteTxt \/ WriteHtml

Spec == Init /\ [][Next]_vars

\* --------------------------------------- the functions called one by one
\* Any sequence of at most MaxCalls calls of the five functions by a caller
\* that catches what they raise.

CallGetIleErrno ==
    /\ ncalls < MaxCalls
    /\ \E how \in LoadOutcomes("__errno"), call \in CallOutcomes, cell \in ErrnoCells :
            get_ile_errno(how, call, cell)
    /\ ncalls' = ncalls + 1
    /\ UNCHANGED <<probeVars, cd, openCds, nextCd, out, convLog, localVars, driverVars>>

CallGetEncodingScheme ==
    /\ ncalls < MaxCalls
    /\ \E id \in {1, LastCcsid}, how \in LoadOutcomes("QTQGESP"), call \in CallOutcomes,
          f \in Feedbacks, e \in SchemeCodes :
            get_encoding_scheme(id, how, call, f, e)
    /\ ncalls' = ncalls + 1
    /\ UNCHANGED <<errno_val, cd, openCds, nextCd, out, convLog, localVars, driverVars>>

CallIconvOpen ==
    /\ ncalls < MaxCalls
    /\ cd.id \notin openCds
    /\ \E how \in LoadOutcomes("QtqIconvOpen"), call \in CallOutcomes, r \in OpenResults :
            iconv_open(CCSID_UTF16, 1, how, call, r)
    /\ ncalls' = ncalls + 1
    /\ UNCHANGED <<errno_val, probeVars, out, convLog, localVars, driverVars>>

CallIconv ==
    /\ ncalls < MaxCalls
    /\ cd.id \in openCds
    /\ \E how \in LoadOutcomes("iconv"), call \in CallOutcomes, o \in ConvOutcomes :
            iconv(cd, to_bytes(1, 1), how, call, o)
    /\ ncalls' = ncalls + 1
    /\ UNCHANGED <<errno_val, probeVars, cd, openCds, nextCd, localVars, driverVars>>

CallIconvClose ==
    /\ ncalls < MaxCalls
    /\ cd.id \in openCds
    /\ \E how \in LoadOutcomes("iconv_close"), call \in CallOutcomes :
            iconv_close(cd, how, call)
    /\ ncalls' = ncalls + 1
    /\ UNCHANGED <<errno_val, probeVars, cd, nextCd, out, convLog, localVars, driverVars>>

NextCalls ==
    CallGetIleErrno \/ CallGetEncodingScheme \/ CallIconvOpen \/ CallIconv \/ CallIconvClose

SpecCalls == Init /\ [][NextCalls]_vars

\* ----------------------------------------------------------- claims

\* write_conv_txt has run on the table dump_conv_table returned
TxtRan ==
    /\ tableKind = "list"
    /\ \/ pc \in {"html", "loop", "done"}
       \/ pc = "aborted" /\ failedAt \in {"txt", "html"}

\* the entry is exactly one UTF-16BE code unit that decodes
DecodesAsOneUnit(bytes) ==
    /\ Len(bytes) = 2
    /\ Utf16beDecode(bytes).ok
    /\ Len(Utf16beDecode(bytes).str) = 1

\* C1: an error raised while one identifier is processed does not end the
\* enumeration: when the program has stopped on an exception, no later
\* identifier of the range is left unclassified.
C1_ErrorDoesNotAbort ==
    pc = "aborted" => {c \in Candidates : c > ccsid} = {}

\* C2: write_conv_txt writes the name <error> for every entry whose bytes
\* are not valid UTF-16BE and goes on, wherever the entry stands in the
\* table (stated for the first such entry, the entries before it being
\* single decodable characters).
C2_ErrorMarkerWritten ==
    TxtRan =>
        \A i \in 1 .. Len(table) :
            (/\ ~Utf16beDecode(table[i]).ok
             /\ \A j \in 1 .. i - 1 : DecodesAsOneUnit(table[j]))
            => /\ Len(txt_out) >= i
               /\ txt_out[i].name = "<error>"

\* C3: the table dump_conv_table builds and returns has 256 entries for the
\* single-byte scheme and 65536 for the double-byte scheme (CpBase and
\* CpBase * CpBase here); the convert calls are issued one per code point in
\* increasing order, the input of call cp being cp in big-endian bytes of
\* the scheme's width, and entry cp is the output of that call.
C3_TableBuilt ==
    tableKind \in {"building", "list"} =>
        LET n == Len(table)
            done == Len(convLog)
        IN /\ es = ES_SBCS => n = CpBase
           /\ es = ES_DBCS => n = CpBase * CpBase
           /\ tableKind = "list" => done = n
           /\ done <= n
           /\ \A k \in 1 .. done :
                /\ convLog[k].data =
                     IF es = ES_SBCS THEN <<k - 1>>
                     ELSE <<(k - 1) \div CpBase, (k - 1) % CpBase>>
                /\ table[k] = convLog[k].w
           /\ \A k \in done + 1 .. n : table[k] = NONE

C3_Witness ==
    /\ pc = "txt"
    /\ tableKind = "list"
    /\ es = ES_DBCS
    /\ table[2] = <<0, 65>>
    /\ table[3] = <<>>
    /\ table[4] = <<216, 0>>

\* C4: a descriptor opened by dump_conv_table is closed before the function
\* is left on every path: outside its loop and its close no descriptor is
\* open, in particular when the program has ended.
C4_DescriptorClosed ==
    pc \notin {"conv", "close"} => openCds = {}

\* C5: an identifier whose probe filled a nonzero feedback element, or
\* reported a scheme other than 0x1100 and 0x1200, is unsupported:
\* dump_conv_table is not invoked for it (so no converter is opened) and no
\* file is created for it.
C5_UnsupportedNotDumped ==
    ((\E i \in 1 .. 3 : fb[i] # 0) \/ esOut \notin {4352, 4608}) =>
        /\ probed \notin dumped
        /\ <<probed, "txt">> \notin files
        /\ <<probed, "html">> \notin files
        /\ probed = ccsid => pc \in {"loop", "done", "aborted"}

C5_Witness ==
    /\ probed = 1
    /\ fb # <<0, 0, 0>>
    /\ esOut = ES_SBCS
    /\ ccsid = 2
    /\ pc = "loop"
    /\ dumped = {}

\* C6: for an identifier of the skip list (16684, 57777) dump_conv_table is
\* not invoked, no converter is opened and neither file is created, whatever
\* the probe returned for it.
C6_SkipListExcluded ==
    \A c \in {16684, 57777} :
        /\ c \notin dumped
        /\ <<c, "txt">> \notin files
        /\ <<c, "html">> \notin files
        /\ ccsid = c => pc \in {"loop", "done", "aborted"}

C6_Witness ==
    /\ probed = 16684
    /\ es = ES_SBCS
    /\ ccsid = 57777
    /\ pc = "loop"

\* C7: resolution is memoized per symbol: once a symbol is resolved every
\* later call takes the same pointer from the cache and makes no foreign
\* load or lookup, so no symbol is resolved successfully twice; a failed
\* resolution leaves the cache empty, and a call finding it empty resolves.
C7_Memoized ==
    [][\A s \in Symbols :
          /\ ptr[s] # NoPtr =>
                /\ ptr'[s] = ptr[s]
                /\ loads'[s] = loads[s]
                /\ resolved'[s] = resolved[s]
          /\ resolved'[s] <= 1
          /\ (loads'[s] > loads[s] /\ resolved'[s] = resolved[s]) => ptr'[s] = NoPtr
          /\ resolved'[s] > resolved[s] => ptr'[s] # NoPtr
          /\ (ncalls' # ncalls /\ lastCall'.sym = s) =>
                /\ lastCall'.how = "cached" <=> ptr[s] # NoPtr
                /\ ptr[s] = NoPtr => loads'[s] = loads[s] + 1
      ]_vars

C7_Witness ==
    \E s \in Symbols :
        /\ loads[s] = 2
        /\ resolved[s] = 1
        /\ ptr[s] # NoPtr
        /\ lastCall = [sym |-> s, how |-> "cached"]

\* C8: iconv is only called on a descriptor that is open: its open did not
\* report rtn = -1 and it has not been closed; at most one descriptor is
\* open and not closed at any time.
C8_ConvertOnOpenDescriptor ==
    /\ \A k \in 1 .. Len(convLog) : convLog[k].open
    /\ Cardinality(openCds) <= 1
    /\ pc \in {"conv", "close"} => cd.rtn # -1 /\ cd.id \in openCds

C8_Witness ==
    /\ pc = "conv"
    /\ cd.id = 2
    /\ openCds = {2}
    /\ Len(convLog) >= 1

\* C9: every entry of a single-byte table is exactly 2 bytes that decode as
\* one UTF-16BE unit, or the line written for it carries the error marker;
\* an entry left empty by a convert call without output is not left
\* unflagged.
C9_EntriesValidOrFlagged ==
    (TxtRan /\ es = ES_SBCS) =>
        \A i \in 1 .. Len(table) :
            \/ DecodesAsOneUnit(table[i])
            \/ /\ Len(txt_out) >= i
               /\ txt_out[i].name = "<error>"

\* C10: the .html file of an identifier is created only after its .txt
\* file and only when the identifier is classified single-byte, and
\* write_conv_html writes only for a table of single-byte length (also when
\* it is applied to the double-byte tables the driver never passes to it).
C10_HtmlOnlySingleByte ==
    [][/\ \A f \in files' \ files :
            f[2] = "html" =>
                /\ f[1] = ccsid
                /\ es = ES_SBCS
                /\ <<ccsid, "txt">> \in files
       /\ html_out'.wrote => Len(table) = CpBase
       /\ (tableKind = "list" /\ write_conv_html(tableKind, table).wrote)
            => Len(table) = CpBase
       /\ \A c \in Candidates : <<c, "html">> \in files' => <<c, "txt">> \in files'
      ]_vars

C10_Witness ==
    /\ files = {<<1, "txt">>, <<1, "html">>, <<2, "txt">>}
    /\ tableKind = "list"
    /\ es = ES_DBCS
    /\ ccsid > 2
    /\ pc = "loop"

====
